---- MODULE Spec2Model ----
(***************************************************************************)
(* Model of the batch dispatch block of refund_tool/app.py: one            *)
(* analyze_single_row task per row of the uploaded table is submitted to a *)
(* ThreadPoolExecutor(max_workers), the futures are collected with         *)
(* as_completed, and each result is written into result_df at the index    *)
(* that future_to_index holds for the future.                              *)
(*                                                                         *)
(* Cell values are written in English: "uncategorized" is the source's     *)
(* '未分类', "API error" is "API错误", "request exception" is "请求异常",  *)
(* "failed" is "失败".  "NaN" is a cell pandas never assigned.             *)
(***************************************************************************)
EXTENDS Integers, Sequences, FiniteSets, TLC

\* Largest number of rows of the uploaded table that is explored.
MaxRows == 3

\* st.slider("并发速度", 1, 20, 10): the range of max_workers.
SliderMin == 1
SliderMax == 20

VARIABLES
    df,               \* the uploaded table: the sequence of its rows
    max_workers,      \* the slider's value
    response,         \* row position -> what its call did; "pending" before it ends
    pc,               \* position of the script: "submit", "collect", "done", "aborted"
    result_df,        \* index label -> [row, root, strategy, plan]
    future_to_index,  \* future f (1..k, in submission order) -> index label
    task_row,         \* future f -> position of the row handed to the task
    fstate,           \* future f -> "queued" | "running" | "finished"
    calls,            \* row position -> number of requests.post calls issued
    collected,        \* futures as_completed has already yielded
    completed,        \* the counter of line 149
    progress          \* the notifications sent to progress_bar/status_text

vars == <<df, max_workers, response, pc, result_df, future_to_index, task_row,
          fstate, calls, collected, completed, progress>>

\* An uploaded table of n rows; the k-th row is identified by its content k.
Upload(n) == [k \in 1 .. n |-> k]

\* What the classification call of one row can do.
\*   ok        : status 200, all three output fields present
\*   ok_empty  : status 200, the outputs carry none of the three fields
\*   http      : a status other than 200
\*   transport : requests.post / response.json raises an Exception (timeout included)
\*   raise     : an exception leaves analyze_single_row (the statements before
\*               the try, or one that "except Exception" does not catch), so
\*               that future.result() raises in the collection loop
Responses == {"ok", "ok_empty", "http", "transport", "raise"}

Faults == {"http", "transport", "raise"}

total == Len(df)

Positions == 0 .. (total - 1)

\* result_df = df.copy(): the rows under the RangeIndex 0..N-1, no AI column yet.
CopyOf(d) ==
    [i \in 0 .. (Len(d) - 1) |->
        [row |-> d[i + 1], root |-> "NaN", strategy |-> "NaN", plan |-> "NaN"]]

\* analyze_single_row: the dict it returns, or the exception that leaves it.
analyze_single_row(resp) ==
    CASE resp = "ok" ->
            [raised |-> FALSE, root |-> "rc", strategy |-> "st", plan |-> "ap"]
      [] resp = "ok_empty" ->
            [raised |-> FALSE, root |-> "uncategorized", strategy |-> "-", plan |-> "-"]
      [] resp = "http" ->
            [raised |-> FALSE, root |-> "API error", strategy |-> "-", plan |-> "-"]
      [] resp = "transport" ->
            [raised |-> FALSE, root |-> "request exception", strategy |-> "-", plan |-> "-"]
      [] OTHER ->
            [raised |-> TRUE, root |-> "NaN", strategy |-> "NaN", plan |-> "NaN"]

\* result_df.at[index, col] = val; a label the frame does not have adds a row.
SetAt(tbl, index, col, val) ==
    IF index \in DOMAIN tbl
    THEN [tbl EXCEPT ![index][col] = val]
    ELSE [i \in (DOMAIN tbl) \cup {index} |->
            IF i = index
            THEN [[row |-> "NaN", root |-> "NaN", strategy |-> "NaN", plan |-> "NaN"]
                    EXCEPT ![col] = val]
            ELSE tbl[i]]

Init ==
    /\ df \in {Upload(n) : n \in 0 .. MaxRows}
    /\ max_workers \in SliderMin .. SliderMax
    /\ response = [p \in 0 .. (Len(df) - 1) |-> "pending"]
    /\ pc = "submit"
    /\ result_df = CopyOf(df)
    /\ future_to_index = <<>>
    /\ task_row = <<>>
    /\ fstate = <<>>
    /\ calls = [p \in 0 .. (Len(df) - 1) |-> 0]
    /\ collected = {}
    /\ completed = 0
    /\ progress = <<>>

\* Variant: every row comes under the same index label.
iterrowsOneLabel(n) ==
    [k \in 1 .. n |-> [index |-> 0, row |-> k - 1]]

\* result_df.iterrows(): the (index, row) pairs in table order; the labels of a
\* table read by read_csv/read_excel are the RangeIndex 0..N-1.
iterrows(n) ==
    [k \in 1 .. n |-> [index |-> k - 1, row |-> k - 1]]

\* executor.submit(analyze_single_row, row, ...): index -- one step of the dict
\* comprehension of lines 155-159.
Submit ==
    /\ pc = "submit"
    /\ Len(future_to_index) < Len(iterrows(total))
    /\ LET it == iterrows(total)[Len(future_to_index) + 1] IN
        /\ future_to_index' = Append(future_to_index, it.index)
        /\ task_row' = Append(task_row, it.row)
    /\ fstate' = Append(fstate, "queued")
    /\ UNCHANGED <<df, max_workers, response, pc, result_df, calls, collected,
                   completed, progress>>

\* Variant: an initial progress value completed / total is computed before the loop.
AsCompletedInitialProgress ==
    /\ pc = "submit"
    /\ Len(future_to_index) = total
    /\ IF total = 0
       THEN pc' = "aborted" /\ UNCHANGED progress
       ELSE pc' = "collect" /\ progress' = Append(progress, <<completed, total>>)
    /\ UNCHANGED <<df, max_workers, response, result_df, future_to_index, task_row,
                   fstate, calls, collected, completed>>

\* The comprehension is exhausted: the script enters the as_completed loop.
AsCompleted ==
    /\ pc = "submit"
    /\ Len(future_to_index) = Len(iterrows(total))
    /\ pc' = "collect"
    /\ UNCHANGED <<df, max_workers, response, result_df, future_to_index, task_row,
                   fstate, calls, collected, completed, progress>>

Running == {f \in DOMAIN fstate : fstate[f] = "running"}

Queued == {f \in DOMAIN fstate : fstate[f] = "queued"}

\* Variant: the pool is not bounded by max_workers.
WorkerFreeAlways == TRUE

\* Variant: the pool is one thread short of max_workers.
WorkerFreeStarved == Cardinality(Running) < max_workers - 1

\* ThreadPoolExecutor(max_workers=max_workers): a thread is free to take a task.
WorkerFree == Cardinality(Running) < max_workers

\* A pool thread takes the oldest queued task and issues its requests.post.
WorkerStart(f) ==
    /\ f \in Queued
    /\ \A g \in Queued : f <= g
    /\ WorkerFree
    /\ fstate' = [fstate EXCEPT ![f] = "running"]
    /\ calls' = [calls EXCEPT ![task_row[f]] = @ + 1]
    /\ UNCHANGED <<df, max_workers, response, pc, result_df, future_to_index,
                   task_row, collected, completed, progress>>

\* Variant: a call that came back with a non-200 status is issued once more.
WorkerFinishRetry(f) ==
    /\ f \in Running
    /\ \E r \in Responses :
          /\ response' = [response EXCEPT ![task_row[f]] = r]
          /\ IF r = "http" /\ calls[task_row[f]] < 2
             THEN /\ calls' = [calls EXCEPT ![task_row[f]] = @ + 1]
                  /\ UNCHANGED fstate
             ELSE /\ fstate' = [fstate EXCEPT ![f] = "finished"]
                  /\ UNCHANGED calls
    /\ UNCHANGED <<df, max_workers, pc, result_df, future_to_index,
                   task_row, collected, completed, progress>>

\* The call returns, fails or times out (timeout=60) and the task ends: there is
\* no retry in analyze_single_row.
WorkerFinish(f) ==
    /\ f \in Running
    /\ \E r \in Responses : response' = [response EXCEPT ![task_row[f]] = r]
    /\ fstate' = [fstate EXCEPT ![f] = "finished"]
    /\ UNCHANGED <<df, max_workers, pc, result_df, future_to_index,
                   task_row, calls, collected, completed, progress>>

\* Variant: the result goes to the next free position in completion order.
IndexOfCompletion(f) == completed

\* index = future_to_index[future]
IndexOf(f) == future_to_index[f]

\* Variant: no except around future.result(), a raising task ends the script.
RecordOutcomeNoExcept(tbl, index, res) ==
    IF ~res.raised
    THEN [df |-> SetAt(SetAt(SetAt(tbl, index, "root", res.root),
                             index, "strategy", res.strategy),
                       index, "plan", res.plan),
          propagated |-> FALSE]
    ELSE [df |-> tbl, propagated |-> TRUE]

\* Lines 163-169: the three cells from the returned dict, or, when
\* future.result() raises, the bare except writes the root-cause cell only.
RecordOutcome(tbl, index, res) ==
    IF ~res.raised
    THEN [df |-> SetAt(SetAt(SetAt(tbl, index, "root", res.root),
                             index, "strategy", res.strategy),
                       index, "plan", res.plan),
          propagated |-> FALSE]
    ELSE [df |-> SetAt(tbl, index, "root", "failed"), propagated |-> FALSE]

\* Variant: the counter is not advanced.
IncrementNone(c) == c

\* completed += 1
Increment(c) == c + 1

\* completed / total, as shown by progress_bar and status_text.
ProgressValue(c, t) ==
    IF t = 0 THEN <<"ZeroDivisionError">> ELSE <<c, t>>

\* One iteration of the as_completed loop (lines 161-173) for a finished future.
Collect(f) ==
    /\ pc = "collect"
    /\ f \in DOMAIN fstate
    /\ fstate[f] = "finished"
    /\ f \notin collected
    /\ LET res == analyze_single_row(response[task_row[f]])
           rec == RecordOutcome(result_df, IndexOf(f), res)
           note == ProgressValue(Increment(completed), total)
       IN  /\ result_df' = rec.df
           /\ collected' = collected \cup {f}
           /\ IF rec.propagated
              THEN /\ pc' = "aborted"
                   /\ UNCHANGED <<completed, progress>>
              ELSE /\ completed' = Increment(completed)
                   /\ IF note = <<"ZeroDivisionError">>
                      THEN pc' = "aborted" /\ UNCHANGED progress
                      ELSE pc' = pc /\ progress' = Append(progress, note)
    /\ UNCHANGED <<df, max_workers, response, future_to_index, task_row, fstate,
                   calls>>

\* Variant: the loop ends as soon as no finished future is waiting.
ExhaustedEarly ==
    \A f \in DOMAIN future_to_index : fstate[f] = "finished" => f \in collected

\* as_completed has yielded every future of future_to_index.
Exhausted == \A f \in DOMAIN future_to_index : f \in collected

\* Control leaves the with block; st.success("处理完成...") is shown.
BatchDone ==
    /\ pc = "collect"
    /\ Exhausted
    /\ pc' = "done"
    /\ UNCHANGED <<df, max_workers, response, result_df, future_to_index, task_row,
                   fstate, calls, collected, completed, progress>>

Next ==
    \/ Submit
    \/ AsCompleted
    \/ \E f \in DOMAIN fstate : WorkerStart(f)
    \/ \E f \in DOMAIN fstate : WorkerFinish(f)
    \/ \E f \in DOMAIN fstate : Collect(f)
    \/ BatchDone

Spec == Init /\ [][Next]_vars

\* Every remote call returns or times out, the pool threads and the script run.
FairSpec ==
    /\ Spec
    /\ WF_vars(Submit)
    /\ WF_vars(AsCompleted)
    /\ WF_vars(\E f \in DOMAIN fstate : WorkerStart(f))
    /\ WF_vars(\E f \in DOMAIN fstate : WorkerFinish(f))
    /\ WF_vars(\E f \in DOMAIN fstate : Collect(f))
    /\ WF_vars(BatchDone)

(***************************************************************************)
(* The claims.                                                             *)
(***************************************************************************)

\* Index i of the result table has a recorded outcome.
Recorded(i) == i \in DOMAIN result_df /\ result_df[i].root # "NaN"

AllRecorded == \A p \in Positions : Recorded(p)

\* The root-cause values that mark a failed row.
FailureRoots == {"API error", "request exception", "failed"}

\* C1: whenever the batch is declared done, an outcome is recorded for every
\* position index 0..N-1 and the table has no other index.
C1_DoneHasEveryOutcome ==
    pc = "done" => /\ DOMAIN result_df = Positions
                   /\ \A p \in Positions : Recorded(p)

C1_Witness ==
    /\ pc = "done"
    /\ total >= 2
    /\ max_workers = 1
    /\ AllRecorded

\* C2: a fault in one task never aborts the batch; at the end the faulty row
\* holds a failure outcome at its own index and every other row holds its own
\* classification.
C2_FaultIsolated ==
    /\ pc # "aborted"
    /\ pc = "done" =>
          \A p \in Positions :
              /\ response[p] \in Faults => result_df[p].root \in FailureRoots
              /\ response[p] = "ok" =>
                    /\ result_df[p].root = "rc"
                    /\ result_df[p].strategy = "st"
                    /\ result_df[p].plan = "ap"
              /\ response[p] = "ok_empty" =>
                    /\ result_df[p].root = "uncategorized"
                    /\ result_df[p].strategy = "-"
                    /\ result_df[p].plan = "-"

C2_Witness ==
    /\ pc = "done"
    /\ \E p, q, r \in Positions :
          /\ response[p] = "raise"
          /\ response[q] = "ok"
          /\ response[r] = "http"
          /\ result_df[p].root = "failed"
          /\ result_df[q].root = "rc"

\* The cells the task of a row leaves in the table, by what its call did.
OutcomeCells(resp) ==
    CASE resp = "ok" -> <<"rc", "st", "ap">>
      [] resp = "ok_empty" -> <<"uncategorized", "-", "-">>
      [] resp = "http" -> <<"API error", "-", "-">>
      [] resp = "transport" -> <<"request exception", "-", "-">>
      [] OTHER -> <<"failed", "NaN", "NaN">>

CellsOf(r) == <<r.root, r.strategy, r.plan>>

\* C3: in whatever order the tasks complete, row i of the table holds row i of
\* the input, and, once the task submitted for row i has been collected, the
\* outcome of that task: the finished table is a function of the rows and the
\* per-row outcomes alone.
C3_OrderIndependent ==
    /\ DOMAIN result_df = Positions
    /\ \A p \in Positions :
          /\ result_df[p].row = df[p + 1]
          /\ CellsOf(result_df[p]) =
                IF \E f \in collected : task_row[f] = p
                THEN OutcomeCells(response[p])
                ELSE <<"NaN", "NaN", "NaN">>

\* The last submitted task is collected first, with a different outcome.
C3_Witness ==
    /\ total >= 2
    /\ collected = {total}
    /\ response[total - 1] = "ok"
    /\ response[0] = "http"
    /\ result_df[total - 1].root = "rc"
    /\ result_df[0].root = "NaN"

ProgressIndexes == 1 .. Len(progress)

\* C4: for N >= 1 the notifications (completed, total) are strictly increasing
\* in completed, the first has completed > 0, (N, N) is emitted at most once
\* and is present exactly when every row has a recorded outcome.
C4_Progress ==
    total >= 1 =>
        /\ \A j \in ProgressIndexes : progress[j][2] = total
        /\ \A j, k \in ProgressIndexes : j < k => progress[j][1] < progress[k][1]
        /\ Len(progress) > 0 => progress[1][1] > 0
        /\ Cardinality({j \in ProgressIndexes : progress[j] = <<total, total>>}) <= 1
        /\ (\E j \in ProgressIndexes : progress[j] = <<total, total>>) <=> AllRecorded
        /\ pc = "done" =>
              Cardinality({j \in ProgressIndexes : progress[j] = <<total, total>>}) = 1

C4_Witness ==
    /\ pc = "done"
    /\ total >= 3
    /\ progress[1] = <<1, total>>
    /\ progress[Len(progress)] = <<total, total>>

\* C5: every row whose task failed or threw has the sentinel in the root-cause
\* column and placeholders in the strategy and action-plan columns; no row of a
\* finished batch has an unwritten strategy or action-plan cell.
C5_FailedRowsHavePlaceholders ==
    pc = "done" =>
        \A p \in Positions :
            /\ response[p] \in Faults =>
                  /\ result_df[p].root \in FailureRoots
                  /\ result_df[p].strategy = "-"
                  /\ result_df[p].plan = "-"
            /\ result_df[p].strategy # "NaN"
            /\ result_df[p].plan # "NaN"

\* C6: under fair scheduling a started batch eventually resolves with a full
\* outcome set, also when every row fails.
C6_BatchResolves ==
    (pc = "submit") ~> (pc = "done" /\ AllRecorded /\ DOMAIN result_df = Positions)

C6_Witness ==
    /\ pc = "done"
    /\ total >= 2
    /\ \A p \in Positions : response[p] \in Faults
    /\ AllRecorded

\* C7: the number of calls in flight never exceeds max_workers, which is in
\* 1..20, and a queued task starts only when fewer than max_workers are running.
C7_BoundedInFlight ==
    /\ [](/\ max_workers \in 1 .. 20
          /\ Cardinality(Running) <= max_workers)
    /\ [][\A f \in DOMAIN fstate :
             (fstate[f] = "queued" /\ fstate'[f] = "running")
                => Cardinality(Running) < max_workers]_vars

\* The pool is full and a further task waits in the queue.
C7_Witness ==
    /\ Cardinality(Running) = max_workers
    /\ Queued # {}
    /\ pc = "collect"

\* C8: no row is submitted twice, none is skipped, each task is tagged with its
\* row's position index, and no row's call is issued more than once.
C8_OneTaskPerRow ==
    /\ \A f, g \in DOMAIN task_row : task_row[f] = task_row[g] => f = g
    /\ \A f \in DOMAIN task_row : future_to_index[f] = task_row[f]
    /\ pc # "submit" => {task_row[f] : f \in DOMAIN task_row} = Positions
    /\ \A p \in Positions : calls[p] <= 1

C8_Witness ==
    /\ pc = "done"
    /\ total >= 2
    /\ \E p, q \in Positions :
          /\ response[p] = "http"
          /\ response[q] = "transport"
          /\ calls[p] = 1
          /\ calls[q] = 1

\* C9: a batch of no rows submits no task, computes no progress value (so
\* divides nothing by zero), keeps the table empty and ends at once.
C9_EmptyBatch ==
    total = 0 =>
        /\ future_to_index = <<>>
        /\ fstate = <<>>
        /\ progress = <<>>
        /\ completed = 0
        /\ DOMAIN result_df = {}
        /\ pc \in {"submit", "collect", "done"}
        /\ pc = "collect" => Exhausted

C9_Witness ==
    /\ total = 0
    /\ pc = "done"
    /\ progress = <<>>

\* C10: an index is written by the completion of the one task submitted for it,
\* no two futures address the same index, and a recorded outcome never changes
\* afterwards (so the table is fixed once the last index is written).
C10_WrittenOnce ==
    /\ [](/\ \A f, g \in DOMAIN future_to_index :
                future_to_index[f] = future_to_index[g] => f = g
          /\ \A i \in DOMAIN result_df :
                Recorded(i) <=> \E f \in collected : future_to_index[f] = i)
    /\ [][\A i \in DOMAIN result_df :
             Recorded(i) => (i \in DOMAIN result_df' /\ result_df'[i] = result_df[i])]_vars

\* The last index has been written and the script is still in the loop.
C10_Witness ==
    /\ pc = "collect"
    /\ total >= 2
    /\ AllRecorded
    /\ Cardinality(collected) = total
====
